---- MODULE Spec2Model ----
(***************************************************************************)
(* Verification model of the barista-ai risk analytics engine:             *)
(*   src/src/agents/risk_analyzer.py   RiskAnalyzerAgent                   *)
(*   src/src/agents/base_agent.py      BaseAgent (state, handle_error)     *)
(*   src/src/models/portfolio.py       Asset, Portfolio                    *)
(*   src/src/utils/calculations.py     metric functions                    *)
(*                                                                         *)
(* Numbers.  Current values are naturals.  A return is an integer count of *)
(* hundredths (1 stands for 0.01).  A weight and a portfolio return are    *)
(* kept as exact fractions [num, den]; volatility and Sharpe ratio, which  *)
(* need a square root, are resolved to hundredths (rounded down).          *)
(* Arithmetic is exact.  One effect of IEEE 754 doubles is modelled, since *)
(* it decides a branch: the mean of equal values need not be that value,   *)
(* so that np.std of a constant series need not be 0 (MeanRoundsAway).     *)
(***************************************************************************)
EXTENDS Integers, Sequences, FiniteSets, TLC

VARIABLES
    portfolio,          \* the Portfolio handed to the agent: [name, assets]
    feed,               \* data_fetcher: what get_returns answers per symbol
    state,              \* BaseAgent.state, a dict: keys -> values
    asset_metrics,      \* last _calculate_asset_metrics call and its result
    portfolio_metrics,  \* last _calculate_portfolio_metrics call and its result
    execution,          \* last execute call: what the caller got
    classified,         \* last direct _assess_risk_level / _generate_risk_summary call
    calc,               \* last direct call of a utils/calculations.py function
    confidence_level,   \* RiskAnalyzerAgent.confidence_level, in percent
    rng,                \* np.random's global generator: the draws made so far
    fetcher,            \* YahooFinanceDataFetcher: price cache, timestamps, clock
    calls               \* the execute calls in progress on the agent, by call id

vars == <<portfolio, feed, state, asset_metrics, portfolio_metrics,
          execution, classified, calc, confidence_level, rng, fetcher, calls>>

\* The agent's configuration, the generator, the price cache and the calls
\* in progress.
rest == <<confidence_level, rng, fetcher, calls>>

-----------------------------------------------------------------------------
(* Bounds of the model *)

MaxAssets == 2          \* assets in a portfolio
MaxValue == 2           \* largest current_value
MaxVol == 36            \* largest volatility tried on the classifier (hundredths)
MaxSharpe == 110        \* largest |Sharpe ratio| tried on the classifier (hundredths)
MaxSeriesLen == 3       \* longest series handed directly to a metric function
MaxRet == 5             \* largest |return| tried there (hundredths)

(* Program constants *)

DefaultConfidence == 95  \* risk_analyzer.py:31  confidence_level = 0.95
Confidence95 == 95       \* risk_analyzer.py:83  confidence_level=0.95 (literal)
DefaultCacheDuration == 300  \* data_fetcher.py:20  cache_duration = 300 (seconds)
DefaultRiskFreeRate == 1 \* calculations.py:32  risk_free_rate=0.01
Tiny == 100001          \* calculations.py:12   np.std: a positive float far below 0.01
Huge == 100002          \* calculations.py:36   a quotient by such a float, about 1e15
Inf == 200000           \* calculations.py:48   np.inf, a float64 divided by 0.0

MinObservations == 30   \* risk_analyzer.py:71   len(returns) < 30
None == -1              \* portfolio.py:30       current_value defaults to None
NaN == -100000          \* calculations.py:35    np.nan
RiskFreeRate == 4       \* risk_analyzer.py:31   risk_free_rate = 0.04
VolHigh == 30           \* risk_analyzer.py:165  volatility > 0.30
VolElevated == 20       \* risk_analyzer.py:167  volatility > 0.20
SharpeLow == 50         \* risk_analyzer.py:170  sharpe < 0.5
VolModerateFinding == 15 \* risk_analyzer.py:145 volatility > 0.15
SharpeGood == 100       \* risk_analyzer.py:149  sharpe > 1.0

-----------------------------------------------------------------------------
(* Data model *)

Symbols == 1..MaxAssets

Values == {None} \cup (0..MaxValue)

\* A fetch that raises instead of answering (a data_fetcher other than the
\* Yahoo one, such as the tests' mock, may raise).
Raises == [raises |-> TRUE, returns |-> << >>]

\* The return of pattern k in period t, in hundredths.
Ret(k, t) == (((k * t) % 3) - 1) * 20 * k

\* Periods of the lookback window: 1..MaxLen.
MaxLen == MinObservations + 1

\* Lengths of the series tried: none, just below and at the data-sufficiency
\* threshold.
Lens == {0, MinObservations - 1, MinObservations}

\* A ReturnSeries: a function from the periods it covers to returns.  A
\* series of n observations covers the latest n periods of the window.
Series(n, k) == [t \in (MaxLen - n + 1)..MaxLen |-> Ret(k, t)]

EmptySeries == Series(0, 1)

\* What get_returns may answer for symbol s: a series of pattern s, or raise.
Answers(s) == {[raises |-> FALSE, returns |-> Series(n, s)] : n \in Lens} \cup {Raises}

\* Asset of models/portfolio.py, the fields the engine reads.
Asset(s, v) == [symbol |-> s, current_value |-> v]

\* Portfolios of n assets with unique symbols 1..n, in that order.
Portfolios ==
    UNION {{[name |-> "My Portfolio", assets |-> [i \in 1..n |-> Asset(i, val[i])]]
              : val \in [1..n -> Values]} : n \in 0..MaxAssets}

EmptyDict == << >>

NotCalled == [called |-> FALSE]

-----------------------------------------------------------------------------
(* Arithmetic helpers *)

RECURSIVE SumFrom(_, _, _)
\* Sum of f[u] over the periods u >= t in D.
SumFrom(f, D, t) ==
    IF t > MaxLen THEN 0
    ELSE (IF t \in D THEN f[t] ELSE 0) + SumFrom(f, D, t + 1)

\* Sum of f[t] over the periods in D.
SumOver(f, D) == SumFrom(f, D, 1)

RECURSIVE SqrtBetween(_, _, _)
\* The largest k in lo..hi with k * k <= a (lo * lo <= a).
SqrtBetween(a, lo, hi) ==
    IF lo >= hi THEN lo
    ELSE LET mid == (lo + hi + 1) \div 2
         IN IF mid * mid <= a THEN SqrtBetween(a, mid, hi)
            ELSE SqrtBetween(a, lo, mid - 1)

\* 46340 is the largest root of a 32-bit integer.
ISqrt(a) == SqrtBetween(a, 0, IF a < 46340 THEN a ELSE 46340)

\* NaN compares false with everything (IEEE 754), as in Python.
Gt(a, b) == a # NaN /\ b # NaN /\ a > b
Lt(a, b) == a # NaN /\ b # NaN /\ a < b

-----------------------------------------------------------------------------
(* utils/calculations.py, over a series of values nums[t] / den hundredths *)

\* n * sum(x^2) - sum(x)^2 of the numerators: n^2 * den^2 times the variance.
Spread(nums) ==
    LET D == DOMAIN nums
        n == Cardinality(D)
        s == SumOver(nums, D)
        q == SumOver([t \in D |-> nums[t] * nums[t]], D)
    IN n * q - s * s

\* np.std (ddof = 0), in hundredths; NaN for an empty series.
calculate_volatility(nums, den) ==
    LET n == Cardinality(DOMAIN nums)
    IN IF n = 0 THEN NaN ELSE ISqrt(Spread(nums)) \div (n * den)

\* (mean - risk_free_rate) / volatility in hundredths; NaN when volatility is 0.
calculate_sharpe_ratio(nums, den, risk_free_rate) ==
    LET D == DOMAIN nums
        n == Cardinality(D)
        a == Spread(nums)
    IN IF n = 0 \/ a = 0 THEN NaN
       ELSE (100 * (SumOver(nums, D) - risk_free_rate * n * den)) \div ISqrt(a)

\* returns.mean() * 252, as the exact fraction num / den (hundredths).
average_return(nums, den) ==
    LET D == DOMAIN nums
    IN [num |-> 252 * SumOver(nums, D), den |-> Cardinality(D) * den]

-----------------------------------------------------------------------------
(* RiskAnalyzerAgent._calculate_asset_metrics *)

Observations(returns) == Cardinality(DOMAIN returns)

\* The metrics dict of one asset (lines 75-86).
AssetMetrics(asset, returns) ==
    [symbol |-> asset.symbol,
     current_value |-> asset.current_value,
     observations |-> Observations(returns),
     volatility |-> calculate_volatility(returns, 1),
     sharpe_ratio |-> calculate_sharpe_ratio(returns, 1, RiskFreeRate),
     average_return |-> average_return(returns, 1)]

\* One pass of the loop body for `asset`: the try block of lines 68-92.
\* acc = [metrics, errors]; `bad` holds the symbols whose metric
\* computation raises.
AssetLoopBody(acc, asset, fd, bad) ==
    LET ans == fd[asset.symbol]
    IN IF ans.raises
       THEN [acc EXCEPT !.errors = @ \cup {asset.symbol}]
       ELSE IF Observations(ans.returns) < MinObservations
       THEN acc
       ELSE IF asset.symbol \in bad
       THEN [acc EXCEPT !.errors = @ \cup {asset.symbol}]
       ELSE [acc EXCEPT !.metrics = Append(@, AssetMetrics(asset, ans.returns))]

RECURSIVE AssetLoop(_, _, _, _, _)
AssetLoop(assets, fd, bad, i, acc) ==
    IF i > Len(assets) THEN acc
    ELSE AssetLoop(assets, fd, bad, i + 1, AssetLoopBody(acc, assets[i], fd, bad))

\* _calculate_asset_metrics with the try around the whole loop: the first
\* asset that raises ends the batch.
calculate_asset_metrics_try_outside(p, fd, bad) ==
    LET assets == p.assets
        Fails(i) == \/ fd[assets[i].symbol].raises
                    \/ /\ Observations(fd[assets[i].symbol].returns) >= MinObservations
                       /\ assets[i].symbol \in bad
        failing == {i \in 1..Len(assets) : Fails(i)}
        first == IF failing = {} THEN Len(assets) + 1
                 ELSE CHOOSE i \in failing : \A j \in failing : i <= j
        before == AssetLoop(SubSeq(assets, 1, first - 1), fd, bad, 1,
                            [metrics |-> << >>, errors |-> {}])
    IN IF failing = {} THEN before
       ELSE [before EXCEPT !.errors = {assets[first].symbol}]

calculate_asset_metrics(p, fd, bad) ==
    AssetLoop(p.assets, fd, bad, 1, [metrics |-> << >>, errors |-> {}])

-----------------------------------------------------------------------------
(* RiskAnalyzerAgent._calculate_portfolio_metrics *)

\* returns_data (lines 98-102): the assets, in portfolio order, whose series
\* is not empty.
HasData(asset, fd) == Observations(fd[asset.symbol].returns) > 0

ReturnsData(assets, fd) == SelectSeq(assets, LAMBDA a : HasData(a, fd))

\* pd.DataFrame(returns_data).dropna() (line 108): the periods every column
\* has.
CommonPeriods(cols, fd) ==
    {t \in 1..MaxLen : \A j \in 1..Len(cols) : t \in DOMAIN fd[cols[j].symbol].returns}

\* sum(asset.current_value for asset in portfolio.assets) (line 109).
RECURSIVE SumValues(_, _)
SumValues(assets, i) ==
    IF i > Len(assets) THEN 0
    ELSE assets[i].current_value + SumValues(assets, i + 1)

TotalValue(assets, fd) == SumValues(assets, 1)

\* The weights array (lines 110-111), as fractions num / den, one per asset
\* of the portfolio with a column in returns_data, in portfolio order.
Weights(assets, fd, total_value) ==
    LET picked == SelectSeq(assets, LAMBDA a : HasData(a, fd))
    IN [j \in 1..Len(picked) |-> [num |-> picked[j].current_value, den |-> total_value]]

\* (returns_df * weights).sum(axis=1) (line 113): column j times weights[j],
\* summed per period; the numerators over the common denominator.
RECURSIVE WeightedSum(_, _, _, _, _)
WeightedSum(cols, weights, fd, t, j) ==
    IF j > Len(cols) THEN 0
    ELSE weights[j].num * fd[cols[j].symbol].returns[t]
           + WeightedSum(cols, weights, fd, t, j + 1)

\* The weighted sum without .dropna(): every period any column has, a
\* missing return skipped by sum(axis=1).
RECURSIVE WeightedSumSkipNa(_, _, _, _, _)
WeightedSumSkipNa(cols, weights, fd, t, j) ==
    IF j > Len(cols) THEN 0
    ELSE (IF t \in DOMAIN fd[cols[j].symbol].returns
          THEN weights[j].num * fd[cols[j].symbol].returns[t] ELSE 0)
           + WeightedSumSkipNa(cols, weights, fd, t, j + 1)

PortfolioReturns_without_dropna(cols, weights, fd) ==
    [t \in {u \in 1..MaxLen : \E j \in 1..Len(cols) : u \in DOMAIN fd[cols[j].symbol].returns}
        |-> WeightedSumSkipNa(cols, weights, fd, t, 1)]

PortfolioReturns(cols, weights, fd) ==
    [t \in CommonPeriods(cols, fd) |-> WeightedSum(cols, weights, fd, t, 1)]

\* The whole method.  `fails` says whether a metric function raises on the
\* portfolio series (an unexpected numerical failure); calculate_max_drawdown
\* raises by itself on an empty series (price_series[0]).
calculate_portfolio_metrics(p, fd, fails) ==
    LET assets == p.assets
        cols == ReturnsData(assets, fd)
    IN IF \E i \in 1..Len(assets) : fd[assets[i].symbol].raises
       THEN EmptyDict                          \* get_returns raised: line 129
       ELSE IF Len(cols) = 0
       THEN EmptyDict                          \* line 104
       ELSE IF \E i \in 1..Len(assets) : assets[i].current_value = None
       THEN EmptyDict                          \* TypeError in sum(): line 129
       ELSE LET total_value == TotalValue(assets, fd)
            IN IF total_value = 0
               THEN EmptyDict                  \* ZeroDivisionError: line 129
               ELSE LET weights == Weights(assets, fd, total_value)
                        nums == PortfolioReturns(cols, weights, fd)
                    IN IF fails \/ DOMAIN nums = {}
                       THEN EmptyDict          \* line 129
                       ELSE [total_value |-> total_value,
                             columns |-> [j \in 1..Len(cols) |-> cols[j].symbol],
                             column_observations |->
                                 [j \in 1..Len(cols) |->
                                     Observations(fd[cols[j].symbol].returns)],
                             weights |-> weights,
                             portfolio_returns |-> [nums |-> nums, den |-> total_value],
                             volatility |-> calculate_volatility(nums, total_value),
                             sharpe_ratio |->
                                 calculate_sharpe_ratio(nums, total_value, RiskFreeRate),
                             average_return |-> average_return(nums, total_value)]

-----------------------------------------------------------------------------
(* RiskAnalyzerAgent._assess_risk_level and _generate_risk_summary *)

\* dict.get(key, default)
Get(d, key, default) == IF key \in DOMAIN d THEN d[key] ELSE default

\* risk_score with the volatility thresholds inclusive (>= for >).
risk_score_inclusive(metrics) ==
    LET volatility == Get(metrics, "volatility", 0)
        sharpe == Get(metrics, "sharpe_ratio", 0)
    IN (IF volatility # NaN /\ volatility >= VolHigh THEN 3
        ELSE IF volatility # NaN /\ volatility >= VolElevated THEN 2 ELSE 0)
       + (IF Lt(sharpe, SharpeLow) THEN 2 ELSE 0)

\* risk_score with the Sharpe test written as `not (sharpe >= 0.5)`, which
\* is true for NaN.
risk_score_nan_is_low(metrics) ==
    LET volatility == Get(metrics, "volatility", 0)
        sharpe == Get(metrics, "sharpe_ratio", 0)
    IN (IF Gt(volatility, VolHigh) THEN 3
        ELSE IF Gt(volatility, VolElevated) THEN 2 ELSE 0)
       + (IF ~(sharpe # NaN /\ sharpe >= SharpeLow) THEN 2 ELSE 0)

risk_score(metrics) ==
    LET volatility == Get(metrics, "volatility", 0)
        sharpe == Get(metrics, "sharpe_ratio", 0)
    IN (IF Gt(volatility, VolHigh) THEN 3
        ELSE IF Gt(volatility, VolElevated) THEN 2 ELSE 0)
       + (IF Lt(sharpe, SharpeLow) THEN 2 ELSE 0)

assess_risk_level(metrics) ==
    LET score == risk_score(metrics)
    IN IF score >= 4 THEN "HIGH" ELSE IF score >= 2 THEN "MODERATE" ELSE "LOW"

\* Truth value of a number in `if var_95:`: 0 is false, anything else
\* (NaN too) is true.
Truthy(x) == x # 0

\* key_findings with `if` for each `elif`: every threshold that holds appends.
key_findings_no_elif(metrics) ==
    LET volatility == Get(metrics, "volatility", 0)
        sharpe == Get(metrics, "sharpe_ratio", 0)
        var_95 == Get(metrics, "var_historical_95", 0)
    IN (IF Gt(volatility, VolHigh) THEN <<"High volatility">> ELSE << >>)
       \o (IF Gt(volatility, VolModerateFinding) THEN <<"Moderate volatility">> ELSE << >>)
       \o (IF Gt(sharpe, SharpeGood) THEN <<"Good risk-adjusted returns">> ELSE << >>)
       \o (IF Lt(sharpe, 0) THEN <<"Poor risk-adjusted returns">> ELSE << >>)
       \o (IF Truthy(var_95) THEN <<"95% VaR">> ELSE << >>)

key_findings(metrics) ==
    LET volatility == Get(metrics, "volatility", 0)
        sharpe == Get(metrics, "sharpe_ratio", 0)
        var_95 == Get(metrics, "var_historical_95", 0)
    IN (IF Gt(volatility, VolHigh) THEN <<"High volatility">>
        ELSE IF Gt(volatility, VolModerateFinding) THEN <<"Moderate volatility">>
        ELSE << >>)
       \o (IF Gt(sharpe, SharpeGood) THEN <<"Good risk-adjusted returns">>
           ELSE IF Lt(sharpe, 0) THEN <<"Poor risk-adjusted returns">>
           ELSE << >>)
       \o (IF Truthy(var_95) THEN <<"95% VaR">> ELSE << >>)

\* generate_risk_summary without its guard on an empty dict.
generate_risk_summary_unguarded(metrics) ==
    [risk_level |-> assess_risk_level(metrics),
     key_findings |-> key_findings(metrics)]

generate_risk_summary(metrics) ==
    IF DOMAIN metrics = {}
    THEN [status |-> "insufficient_data"]
    ELSE [risk_level |-> assess_risk_level(metrics),
          key_findings |-> key_findings(metrics)]

-----------------------------------------------------------------------------
(* BaseAgent.update_state, handle_error *)

\* self.update_state(*args): binding the call to update_state(self, key,
\* value) raises TypeError unless exactly two arguments are passed; otherwise
\* state[key] = value.
update_state(st, args) ==
    IF Len(args) # 2
    THEN [raised |-> TRUE, exception |-> "TypeError", state |-> st]
    ELSE [raised |-> FALSE, exception |-> "",
          state |-> [k \in DOMAIN st \cup {args[1]} |->
                        IF k = args[1] THEN args[2] ELSE st[k]]]

\* handle_error(error, context): records str(error) and the time.
handle_error(st, error) ==
    LET u1 == update_state(st, <<"last_error", error>>)
    IN IF u1.raised THEN u1
       ELSE update_state(u1.state, <<"last_error_time", "now">>)

-----------------------------------------------------------------------------
(* RiskAnalyzerAgent.execute *)

\* The call ends with exception e leaving execute from line raised_at:
\* line 62 re-raises the exception caught at line 59, lines 60 and 61
\* raise an exception of their own in its place.
Raised(st, e, errors, raised_at) ==
    [called |-> TRUE, outcome |-> "raised", exception |-> e,
     report |-> EmptyDict, errors |-> errors, state |-> st,
     raised_at |-> raised_at]

\* The except block (lines 59-62) for exception e raised in the try block.
ExecuteHandler(st, e, errors) ==
    LET h1 == update_state(st, <<"failed">>)                       \* line 60
    IN IF h1.raised THEN Raised(h1.state, h1.exception, errors, 60)
       ELSE LET h2 == handle_error(h1.state, e)                    \* line 61
            IN IF h2.raised THEN Raised(h2.state, h2.exception, errors, 61)
               ELSE Raised(h2.state, e, errors, 62)                \* line 62

\* The whole call: what the caller gets and the agent state it leaves.
execute(st, p, fd, bad, fails) ==
    LET u1 == update_state(st, <<"running">>)                      \* line 40
    IN IF u1.raised THEN ExecuteHandler(u1.state, u1.exception, {})
       ELSE LET am == calculate_asset_metrics(p, fd, bad)          \* line 43
                pm == calculate_portfolio_metrics(p, fd, fails)    \* line 44
                risk_report ==
                    [timestamp |-> "now",
                     portfolio_name |-> p.name,
                     analysis_period |-> "1y",
                     portfolio_metrics |-> pm,
                     asset_metrics |-> am.metrics,
                     risk_summary |-> generate_risk_summary(pm)]
                u2 == update_state(u1.state, <<"completed">>)      \* line 55
            IN IF u2.raised
               THEN ExecuteHandler(u2.state, u2.exception, am.errors)
               ELSE [called |-> TRUE, outcome |-> "returned", exception |-> "",
                     report |-> risk_report, errors |-> am.errors,
                     state |-> u2.state, raised_at |-> None]

-----------------------------------------------------------------------------
(* A freshly constructed agent and data fetcher *)

\* No price cached, no request made yet (data_fetcher.py:26-30).
\* `now` is what time.time() returns, in seconds since construction;
\* `answer` is the last get_current_price call and what it returned.
NewFetcher ==
    [cache |-> << >>, cache_timestamps |-> << >>,
     cache_duration |-> DefaultCacheDuration, last_request_time |-> 0,
     now |-> 0, answer |-> NotCalled]

\* The default configuration, an untouched generator, no call in progress.
Fresh ==
    /\ confidence_level = DefaultConfidence
    /\ rng = 0
    /\ fetcher = NewFetcher
    /\ calls = << >>

-----------------------------------------------------------------------------
(* The agent with a portfolio and a data source: direct calls of the two   *)
(* metric methods (as the tests make them) and execute.                    *)

Init ==
    /\ portfolio \in Portfolios
    /\ feed \in {f \in [Symbols -> UNION {Answers(s) : s \in Symbols}] :
                    \A s \in Symbols :
                        /\ f[s] \in Answers(s)
                        /\ s > Len(portfolio.assets) => f[s].returns = EmptySeries /\ ~f[s].raises}
    /\ state = EmptyDict                              \* base_agent.py:30
    /\ asset_metrics = NotCalled
    /\ portfolio_metrics = NotCalled
    /\ execution = NotCalled
    /\ classified = NotCalled
    /\ calc = NotCalled
    /\ Fresh

CalcAssetMetrics(bad) ==
    /\ LET r == calculate_asset_metrics(portfolio, feed, bad)
       IN asset_metrics' = [called |-> TRUE, bad |-> bad,
                            result |-> r.metrics, errors |-> r.errors]
    /\ UNCHANGED <<portfolio, feed, state, portfolio_metrics, execution, classified, calc, rest>>

CalcPortfolioMetrics(fails) ==
    /\ portfolio_metrics' =
           [called |-> TRUE, fails |-> fails,
            result |-> calculate_portfolio_metrics(portfolio, feed, fails)]
    /\ UNCHANGED <<portfolio, feed, state, asset_metrics, execution, classified, calc, rest>>

Execute(bad, fails) ==
    /\ LET r == execute(state, portfolio, feed, bad, fails)
       IN /\ execution' = [called |-> TRUE, outcome |-> r.outcome,
                           exception |-> r.exception, report |-> r.report,
                           errors |-> r.errors, raised_at |-> r.raised_at]
          /\ state' = r.state
    /\ UNCHANGED <<portfolio, feed, asset_metrics, portfolio_metrics, classified, calc, rest>>

\* _generate_risk_summary applied to the result of the last
\* _calculate_portfolio_metrics call (what line 52 passes).
SummarizePortfolioMetrics ==
    /\ portfolio_metrics.called
    /\ classified' = [called |-> TRUE, op |-> "_generate_risk_summary",
                      metrics |-> portfolio_metrics.result,
                      result |-> generate_risk_summary(portfolio_metrics.result)]
    /\ UNCHANGED <<portfolio, feed, state, asset_metrics, portfolio_metrics, execution, calc, rest>>

\* The symbols whose metrics _calculate_asset_metrics computes (line 75):
\* only their computation can raise.
Computed ==
    {portfolio.assets[i].symbol : i \in
        {j \in 1..Len(portfolio.assets) :
            /\ ~feed[portfolio.assets[j].symbol].raises
            /\ Observations(feed[portfolio.assets[j].symbol].returns) >= MinObservations}}

\* Direct calls of the metric methods and of the summary.
Next ==
    \/ \E bad \in SUBSET Computed : CalcAssetMetrics(bad)
    \/ \E fails \in BOOLEAN : CalcPortfolioMetrics(fails)
    \/ SummarizePortfolioMetrics

Spec == Init /\ [][Next]_vars

\* Calls of execute.
NextExecute ==
    \E bad \in SUBSET Computed, fails \in BOOLEAN : Execute(bad, fails)

SpecExecute == Init /\ [][NextExecute]_vars

-----------------------------------------------------------------------------
(* The two metric methods called in the order of execute (lines 43-44),    *)
(* with a data source that may answer the second request differently:      *)
(* get_returns asks the source anew on every call (data_fetcher.py:108).   *)

SourceChanges(s, answer) ==
    /\ asset_metrics.called /\ ~portfolio_metrics.called
    /\ s \in 1..Len(portfolio.assets)
    /\ answer # feed[s]
    /\ feed' = [feed EXCEPT ![s] = answer]
    /\ UNCHANGED <<portfolio, state, asset_metrics, portfolio_metrics, execution, classified, calc, rest>>

NextRefetch ==
    \/ \E bad \in SUBSET Computed : ~asset_metrics.called /\ CalcAssetMetrics(bad)
    \/ \E s \in Symbols : \E answer \in Answers(s) : SourceChanges(s, answer)
    \/ \E fails \in BOOLEAN : asset_metrics.called /\ CalcPortfolioMetrics(fails)

SpecRefetch == Init /\ [][NextRefetch]_vars

-----------------------------------------------------------------------------
(* The classifier on its own: _assess_risk_level and _generate_risk_summary *)
(* applied to metrics dicts drawn from bounded sets.                        *)

Vols == (0..MaxVol) \cup {NaN}
Sharpes == ((-MaxSharpe)..MaxSharpe) \cup {NaN}
Var95s == {-5, 0, NaN}

MetricsInputs == [volatility : Vols, sharpe_ratio : Sharpes, var_historical_95 : Var95s]

InitClassifier ==
    /\ portfolio = [name |-> "My Portfolio", assets |-> << >>]
    /\ feed = [s \in Symbols |-> [raises |-> FALSE, returns |-> EmptySeries]]
    /\ state = EmptyDict
    /\ asset_metrics = NotCalled
    /\ portfolio_metrics = NotCalled
    /\ execution = NotCalled
    /\ \/ \E metrics \in MetricsInputs :
             classified = [called |-> FALSE, metrics |-> metrics]
       \/ classified = [called |-> FALSE, metrics |-> EmptyDict]
    /\ calc = NotCalled
    /\ Fresh

AssessRiskLevel ==
    /\ ~classified.called
    /\ classified' = [called |-> TRUE, op |-> "_assess_risk_level",
                      metrics |-> classified.metrics,
                      result |-> assess_risk_level(classified.metrics)]
    /\ UNCHANGED <<portfolio, feed, state, asset_metrics, portfolio_metrics, execution, calc, rest>>

GenerateRiskSummary ==
    /\ ~classified.called
    /\ classified' = [called |-> TRUE, op |-> "_generate_risk_summary",
                      metrics |-> classified.metrics,
                      result |-> generate_risk_summary(classified.metrics)]
    /\ UNCHANGED <<portfolio, feed, state, asset_metrics, portfolio_metrics, execution, calc, rest>>

NextClassifier == AssessRiskLevel \/ GenerateRiskSummary

SpecClassifier == InitClassifier /\ [][NextClassifier]_vars

-----------------------------------------------------------------------------
(* utils/calculations.py called directly on a series: a pd.Series with the *)
(* default index, modelled as a list xs[1..n] of returns in hundredths.    *)

ReturnValues == (-MaxRet)..MaxRet

SeriesInputs == UNION {[1..n -> ReturnValues] : n \in 0..MaxSeriesLen}

\* A float as a fraction num / den with den >= 0: den = 0 stands for
\* +infinity (num > 0) and for NaN (num = 0), and the comparison below is
\* then false exactly where the IEEE 754 comparison is.
Frac(num, den) == [num |-> num, den |-> den]

FracGt(a, b) == a.num * b.den > b.num * a.den

\* (peak - price) / peak for a peak that is a numpy float64 (price_series[0])
\* or a Python float (an element met while iterating the Series): numpy
\* answers a division by zero with inf or nan, Python raises.
Drawdown(peak, price) ==
    IF peak > 0 THEN Frac(peak - price, peak)
    ELSE IF peak < 0 THEN Frac(price - peak, -peak)
    ELSE IF peak = price THEN Frac(0, 0) ELSE Frac(1, 0)

\* The loop of lines 65-70 from position i on.  acc = [peak, numpy, max_dd].
RECURSIVE MaxDrawdownLoop(_, _, _)
MaxDrawdownLoop(xs, i, acc) ==
    IF i > Len(xs) THEN [raised |-> FALSE, exception |-> "", value |-> acc.max_dd]
    ELSE LET price == xs[i]
             rises == price > acc.peak                           \* line 66
             peak == IF rises THEN price ELSE acc.peak           \* line 67
             numpy == acc.numpy /\ ~rises
         IN IF peak = 0 /\ ~numpy
            THEN [raised |-> TRUE, exception |-> "ZeroDivisionError",
                  value |-> acc.max_dd]                          \* line 68
            ELSE LET drawdown == Drawdown(peak, price)
                     max_dd == IF FracGt(drawdown, acc.max_dd)   \* line 69
                               THEN drawdown ELSE acc.max_dd
                 IN MaxDrawdownLoop(xs, i + 1,
                        [peak |-> peak, numpy |-> numpy, max_dd |-> max_dd])

calculate_max_drawdown(xs) ==
    IF Len(xs) = 0
    THEN [raised |-> TRUE, exception |-> "KeyError", value |-> Frac(0, 1)]  \* line 64
    ELSE MaxDrawdownLoop(xs, 1, [peak |-> xs[1], numpy |-> TRUE, max_dd |-> Frac(0, 1)])

\* Confidence levels, in percent.
Confidences == {50, 90, 95}

\* The k-th smallest element of xs (k in 1..Len(xs)).
OrderStat(xs, k) ==
    CHOOSE v \in {xs[i] : i \in 1..Len(xs)} :
        /\ Cardinality({i \in 1..Len(xs) : xs[i] < v}) < k
        /\ Cardinality({i \in 1..Len(xs) : xs[i] <= v}) >= k

\* np.percentile(xs, q) for q percent, by linear interpolation between the
\* order statistics around position q / 100 * (n - 1); NaN for no data.
Percentile(xs, q) ==
    LET n == Len(xs)
        lo == (q * (n - 1)) \div 100
        rem == (q * (n - 1)) % 100
        below == OrderStat(xs, lo + 1)
        above == IF rem = 0 THEN below ELSE OrderStat(xs, lo + 2)
    IN IF n = 0 THEN Frac(0, 0)
       ELSE Frac(100 * below + rem * (above - below), 100)

\* The percentile taken at confidence * 100 instead of (1 - confidence) * 100.
calculate_var_historical_upper(xs, confidence) == Percentile(xs, confidence)

calculate_var_historical(xs, confidence) == Percentile(xs, 100 - confidence)

\* The mean of the values on the other side of the threshold (>= for <=).
calculate_cvar_upper_tail(xs, confidence) ==
    LET var == calculate_var_historical(xs, confidence)
        tail == {i \in 1..Len(xs) : xs[i] * var.den >= var.num}
    IN IF Len(xs) = 0 THEN Frac(0, 0)
       ELSE Frac(SumOver(xs, tail), Cardinality(tail))

\* price_series[price_series <= var].mean(): NaN when nothing is selected.
calculate_cvar(xs, confidence) ==
    LET var == calculate_var_historical(xs, confidence)
        tail == {i \in 1..Len(xs) : xs[i] * var.den <= var.num}
    IN IF Len(xs) = 0 THEN Frac(0, 0)
       ELSE Frac(SumOver(xs, tail), Cardinality(tail))

\* IEEE 754 doubles: the mean of n equal values x need not be x.  Summed
\* left to right, 0.05 + 0.05 + 0.05 is 0.15000000000000002, and a third of
\* that is 0.05000000000000001.  Among the series of up to 5 equal values
\* of at most 10 hundredths, the mean differs from x exactly for these
\* <<n, |x|>>.
MeanRoundsAway == {<<3, 5>>, <<3, 9>>, <<3, 10>>}

Abs(x) == IF x < 0 THEN -x ELSE x

\* np.std(xs) == 0 on doubles: the values are equal and their mean is that
\* value, so that every deviation is 0.
StdIsZero(xs) ==
    LET n == Cardinality(DOMAIN xs)
    IN /\ n > 0
       /\ Spread(xs) = 0
       /\ <<n, Abs(xs[CHOOSE i \in DOMAIN xs : TRUE])>> \notin MeanRoundsAway

\* np.std(xs) on doubles is a positive number far below the resolution of
\* the model: equal values whose mean rounds away.
StdIsTiny(xs) == DOMAIN xs # {} /\ Spread(xs) = 0 /\ ~StdIsZero(xs)

\* calculate_volatility on doubles.
calculate_volatility_float(xs) ==
    IF StdIsTiny(xs) THEN Tiny ELSE calculate_volatility(xs, 1)

\* calculate_sharpe_ratio on doubles: `volatility == 0` (line 35) is false
\* for Tiny, and the quotient is then Huge in magnitude.
calculate_sharpe_ratio_float(xs, risk_free_rate) ==
    IF StdIsTiny(xs)
    THEN (IF xs[1] >= risk_free_rate THEN Huge ELSE -Huge)
    ELSE calculate_sharpe_ratio(xs, 1, risk_free_rate)

\* Targets tried for the Sortino ratio: the default 0 and the agent's
\* risk_free_rate (risk_analyzer.py:81).
TargetReturns == {0, RiskFreeRate}

\* calculate_sortino_ratio, in hundredths (rounded down).
calculate_sortino_ratio(xs, target_return) ==
    LET n == Len(xs)
        down == {i \in 1..n : xs[i] < target_return}               \* line 45
        nd == Cardinality(down)
        downside_returns == [i \in down |-> xs[i]]
        excess == SumOver(xs, 1..n) - target_return * n           \* n * (mean - target)
        spread == Spread(downside_returns)
    IN IF nd = 0 THEN NaN                     \* nan == 0 is false; x / nan
       ELSE IF SumOver(xs, down) = 0 THEN NaN                     \* line 47
       ELSE IF StdIsTiny(downside_returns)
       THEN (IF excess >= 0 THEN Huge ELSE -Huge)
       ELSE IF spread = 0                                         \* x / 0.0
       THEN (IF excess > 0 THEN Inf ELSE IF excess < 0 THEN -Inf ELSE NaN)
       ELSE (100 * excess * nd) \div (n * ISqrt(spread))

\* n * sum(a * m) - sum(a) * sum(m): n^2 times the mean product of the
\* deviations of a and m (Spread(a) when m = a).
CoSpread(a, m) ==
    LET D == DOMAIN a
        n == Cardinality(D)
    IN n * SumOver([t \in D |-> a[t] * m[t]], D) - SumOver(a, D) * SumOver(m, D)

\* The market series tried against a series xs: xs itself and the constant
\* series of 0.00 and of 0.01, of the same length.
MarketInputs(xs) == {xs} \cup {[i \in 1..Len(xs) |-> v] : v \in {0, 1}}

\* calculate_beta.  np.cov divides the summed products by n - 1 (its
\* default ddof is 1) and yields nan for n <= 1; calculate_variance is
\* np.var, which divides by n.  The quotient is CoSpread / (n * (n - 1))
\* over Spread / n^2.  (A market with equal values whose mean rounds away
\* is tried only as the asset series itself, where both deviations agree.)
calculate_beta(asset_returns, market_returns) ==
    LET n == Len(market_returns)
    IN IF n <= 1 THEN Frac(0, 0)
       ELSE IF StdIsZero(market_returns) THEN Frac(0, 0)          \* line 41
       ELSE IF StdIsTiny(market_returns) THEN Frac(n, n - 1)
       ELSE Frac(CoSpread(asset_returns, market_returns) * n,
                 (n - 1) * Spread(market_returns))

-----------------------------------------------------------------------------
(* The metric functions on their own, each applied once to a series drawn  *)
(* from a bounded set.                                                     *)

RiskFreeRates == {DefaultRiskFreeRate, RiskFreeRate}

InitMetrics ==
    /\ portfolio = [name |-> "My Portfolio", assets |-> << >>]
    /\ feed = [s \in Symbols |-> [raises |-> FALSE, returns |-> EmptySeries]]
    /\ state = EmptyDict
    /\ asset_metrics = NotCalled
    /\ portfolio_metrics = NotCalled
    /\ execution = NotCalled
    /\ classified = NotCalled
    /\ \E xs \in SeriesInputs : calc = [called |-> FALSE, series |-> xs]
    /\ Fresh

\* The record of the call op(series, arg) that returned or raised `result`.
Applied(op, arg, result) ==
    [called |-> TRUE, series |-> calc.series, op |-> op, arg |-> arg, result |-> result]

\* What a call of a metric function leaves alone.
OnlyCalc ==
    UNCHANGED <<portfolio, feed, state, asset_metrics, portfolio_metrics,
                execution, classified, rest>>

MaxDrawdown ==
    /\ ~calc.called
    /\ calc' = Applied("calculate_max_drawdown", 0,
                       calculate_max_drawdown(calc.series))
    /\ OnlyCalc

VarHistorical(confidence) ==
    /\ ~calc.called
    /\ calc' = Applied("calculate_var_historical", confidence,
                       calculate_var_historical(calc.series, confidence))
    /\ OnlyCalc

CVaR(confidence) ==
    /\ ~calc.called
    /\ calc' = Applied("calculate_cvar", confidence,
                       calculate_cvar(calc.series, confidence))
    /\ OnlyCalc

Volatility ==
    /\ ~calc.called
    /\ calc' = Applied("calculate_volatility", 0,
                       calculate_volatility_float(calc.series))
    /\ OnlyCalc

SharpeRatio(risk_free_rate) ==
    /\ ~calc.called
    /\ calc' = Applied("calculate_sharpe_ratio", risk_free_rate,
                       calculate_sharpe_ratio_float(calc.series, risk_free_rate))
    /\ OnlyCalc

SortinoRatio(target_return) ==
    /\ ~calc.called
    /\ calc' = Applied("calculate_sortino_ratio", target_return,
                       calculate_sortino_ratio(calc.series, target_return))
    /\ OnlyCalc

Beta ==
    /\ ~calc.called
    /\ \E market_returns \in MarketInputs(calc.series) :
          calc' = Applied("calculate_beta", market_returns,
                          calculate_beta(calc.series, market_returns))
    /\ OnlyCalc

NextMetrics ==
    \/ Beta
    \/ MaxDrawdown
    \/ \E confidence \in Confidences : VarHistorical(confidence)
    \/ \E confidence \in Confidences : CVaR(confidence)
    \/ Volatility
    \/ \E risk_free_rate \in RiskFreeRates : SharpeRatio(risk_free_rate)
    \/ \E target_return \in TargetReturns : SortinoRatio(target_return)

SpecMetrics == InitMetrics /\ [][NextMetrics]_vars

-----------------------------------------------------------------------------
(* calculate_var_monte_carlo, called more than once on the same series.    *)
(* The simulated sample comes from np.random's global generator, which     *)
(* every call advances; the function has no seed parameter.                *)

MaxRuns == 2

\* seed arguments a caller may try to pass; None passes none
Seeds == {None, 0}

\* one-point series (np.std is 0) and two-point series
MonteCarloInputs == {xs \in SeriesInputs : Len(xs) \in {1, 2}}

\* The percentile of the simulated sample: the sample is fixed by its mean,
\* its standard deviation and the generator's position when it was drawn.
\* With a standard deviation of 0 every simulated value is the mean.
calculate_var_monte_carlo(xs, confidence, seed, generator) ==
    IF seed # None
    THEN [raised |-> TRUE, exception |-> "TypeError"]   \* no such parameter
    ELSE [raised |-> FALSE,
          mean   |-> Frac(SumOver(xs, DOMAIN xs), Len(xs)),
          spread |-> Spread(xs),
          percentile |-> 100 - confidence,
          sample |-> IF StdIsZero(xs) THEN 0 ELSE generator + 1]

InitMonteCarlo ==
    /\ portfolio = [name |-> "My Portfolio", assets |-> << >>]
    /\ feed = [s \in Symbols |-> [raises |-> FALSE, returns |-> EmptySeries]]
    /\ state = EmptyDict
    /\ asset_metrics = NotCalled
    /\ portfolio_metrics = NotCalled
    /\ execution = NotCalled
    /\ classified = NotCalled
    /\ \E xs \in MonteCarloInputs : calc = [series |-> xs, runs |-> << >>]
    /\ Fresh

\* A call by `caller`; a call that raises draws nothing.
Run(caller, confidence, seed) ==
    LET result == calculate_var_monte_carlo(calc.series, confidence, seed, rng)
    IN /\ Len(calc.runs) < MaxRuns
       /\ calc' = [calc EXCEPT !.runs = Append(@,
                      [caller |-> caller, confidence |-> confidence,
                       seed |-> seed, result |-> result])]
       /\ rng' = IF result.raised THEN rng ELSE rng + 1
       /\ UNCHANGED <<portfolio, feed, state, asset_metrics, portfolio_metrics,
                      execution, classified, confidence_level, fetcher, calls>>

\* A direct call of calculate_var_monte_carlo.
VarMonteCarlo(seed) ==
    /\ Run("caller", DefaultConfidence, seed)

\* The call made by _calculate_portfolio_metrics for var_monte_carlo_95.
PortfolioVarMonteCarlo ==
    /\ Run("_calculate_portfolio_metrics", DefaultConfidence, None)

NextMonteCarlo ==
    \/ \E seed \in Seeds : VarMonteCarlo(seed)
    \/ PortfolioVarMonteCarlo

SpecMonteCarlo == InitMonteCarlo /\ [][NextMonteCarlo]_vars

-----------------------------------------------------------------------------
(* Two execute calls on one agent, interleaved statement by statement.     *)
(* self.state is the one dict of the agent; the portfolio, the metrics and *)
(* the report are locals of each call.                                     *)

CallIds == {1, 2}

\* The second caller's portfolio.
OtherPortfolio == [name |-> "Other", assets |-> << >>]

PortfolioOf(c) == IF c = 1 THEN portfolio ELSE OtherPortfolio

\* A call about to run line 40.
NewCall(p) ==
    [portfolio |-> p, pc |-> 40, caught |-> "", report |-> EmptyDict,
     outcome |-> "running", exception |-> "", raised_at |-> None,
     written |-> {}, overwrote |-> FALSE]

\* self.update_state(*args) at line `pc` of call `call`: on success the
\* call goes on at line `next`; a TypeError is caught at line 59 when raised
\* in the try block and leaves execute when raised in the except block.
\* `others` are the state keys written by the other calls.
UpdateStateAt(st, call, args, next, others) ==
    LET u == update_state(st, args)
    IN IF ~u.raised
       THEN [state |-> u.state,
             call |-> [call EXCEPT !.pc = next,
                                   !.written = @ \cup {args[1]},
                                   !.overwrote = @ \/ args[1] \in others]]
       ELSE IF call.pc < 59
       THEN [state |-> st,
             call |-> [call EXCEPT !.pc = 60, !.caught = u.exception]]
       ELSE [state |-> st,
             call |-> [call EXCEPT !.outcome = "raised",
                                   !.exception = u.exception,
                                   !.raised_at = call.pc]]

\* The next statement of execute in call `call`.
execute_step(st, call, fd, others) ==
    CASE call.pc = 40 -> UpdateStateAt(st, call, <<"running">>, 43, others)
      [] call.pc = 43 ->                                        \* lines 43-52
            LET am == calculate_asset_metrics(call.portfolio, fd, {})
                pm == calculate_portfolio_metrics(call.portfolio, fd, FALSE)
            IN [state |-> st,
                call |-> [call EXCEPT
                    !.pc = 55,
                    !.report = [timestamp |-> "now",
                                portfolio_name |-> call.portfolio.name,
                                analysis_period |-> "1y",
                                portfolio_metrics |-> pm,
                                asset_metrics |-> am.metrics,
                                risk_summary |-> generate_risk_summary(pm)]]]
      [] call.pc = 55 ->
            LET r == UpdateStateAt(st, call, <<"completed">>, 57, others)
            IN IF r.call.pc = 57
               THEN [r EXCEPT !.call.outcome = "returned"]      \* line 57
               ELSE r
      [] call.pc = 60 -> UpdateStateAt(st, call, <<"failed">>, 61, others)
      [] call.pc = 61 ->
            LET h == handle_error(st, call.caught)
            IN IF h.raised
               THEN [state |-> h.state,
                     call |-> [call EXCEPT !.outcome = "raised",
                                           !.exception = h.exception,
                                           !.raised_at = 61]]
               ELSE [state |-> h.state,
                     call |-> [call EXCEPT
                         !.pc = 62,
                         !.written = @ \cup {"last_error", "last_error_time"},
                         !.overwrote = @ \/ {"last_error", "last_error_time"}
                                                \cap others # {}]]
      [] call.pc = 62 ->
            [state |-> st,
             call |-> [call EXCEPT !.outcome = "raised",
                                   !.exception = call.caught,
                                   !.raised_at = 62]]

\* The state keys written so far by the calls other than c.
WrittenByOthers(c) == UNION {calls[d].written : d \in DOMAIN calls \ {c}}

\* A caller enters execute.
StartCall(c) ==
    /\ c \notin DOMAIN calls
    /\ calls' = [d \in DOMAIN calls \cup {c} |->
                    IF d = c THEN NewCall(PortfolioOf(c)) ELSE calls[d]]
    /\ UNCHANGED <<portfolio, feed, state, asset_metrics, portfolio_metrics,
                   execution, classified, calc, confidence_level, rng, fetcher>>

\* The call c runs its next statement.
StepCall(c) ==
    /\ c \in DOMAIN calls
    /\ calls[c].outcome = "running"
    /\ LET r == execute_step(state, calls[c], feed, WrittenByOthers(c))
       IN /\ state' = r.state
          /\ calls' = [calls EXCEPT ![c] = r.call]
    /\ UNCHANGED <<portfolio, feed, asset_metrics, portfolio_metrics,
                   execution, classified, calc, confidence_level, rng, fetcher>>

NextInterleaved ==
    \/ \E c \in CallIds : StartCall(c)
    \/ \E c \in CallIds : StepCall(c)

SpecInterleaved == Init /\ [][NextInterleaved]_vars

-----------------------------------------------------------------------------
(* YahooFinanceDataFetcher.get_current_price and its price cache, with a   *)
(* clock that advances between calls.                                      *)

MaxClock == 4

Tickers == {"AAPL", "MSFT"}

Prices == {1, 2}

\* cache_duration arguments of the constructor, in seconds
CacheDurations == {1, 2, DefaultCacheDuration}

\* What Yahoo answers to ticker.history(period='1d'): a closing price, an
\* empty frame, or an exception.
Quotes ==
    {[kind |-> "price", price |-> p] : p \in Prices}
        \cup {[kind |-> k, price |-> 0] : k \in {"empty", "raises"}}

\* Yahoo was not asked.
Unasked == [kind |-> "unasked", price |-> 0]

\* d[k] = v
Put(d, k, v) == [x \in DOMAIN d \cup {k} |-> IF x = k THEN v ELSE d[x]]

\* _is_cache_valid with <= for <
is_cache_valid_inclusive(f, symbol) ==
    IF symbol \notin DOMAIN f.cache_timestamps THEN FALSE
    ELSE f.now - f.cache_timestamps[symbol] <= f.cache_duration

is_cache_valid(f, symbol) ==
    IF symbol \notin DOMAIN f.cache_timestamps THEN FALSE
    ELSE f.now - f.cache_timestamps[symbol] < f.cache_duration

update_cache(f, symbol, data) ==
    [f EXCEPT !.cache = Put(@, symbol, data),
              !.cache_timestamps = Put(@, symbol, f.now)]

\* _rate_limit: the pause is shorter than a second.
rate_limit(f) == [f EXCEPT !.last_request_time = f.now]

\* get_current_price(symbol) when Yahoo would answer `quote`: the fetcher
\* it leaves, what it returns, and whether it asked Yahoo.
get_current_price(f, symbol, quote) ==
    IF is_cache_valid(f, symbol)
    THEN [fetcher |-> f, result |-> f.cache[symbol], fetched |-> FALSE]
    ELSE LET g == rate_limit(f)                                     \* line 78
         IN IF quote.kind = "price"
            THEN [fetcher |-> update_cache(g, symbol, quote.price),
                  result |-> quote.price, fetched |-> TRUE]
            ELSE [fetcher |-> g, result |-> None, fetched |-> TRUE]

\* YahooFinanceDataFetcher(cache_duration=d)
InitCache ==
    /\ portfolio = [name |-> "My Portfolio", assets |-> << >>]
    /\ feed = [s \in Symbols |-> [raises |-> FALSE, returns |-> EmptySeries]]
    /\ state = EmptyDict
    /\ asset_metrics = NotCalled
    /\ portfolio_metrics = NotCalled
    /\ execution = NotCalled
    /\ classified = NotCalled
    /\ calc = NotCalled
    /\ confidence_level = DefaultConfidence
    /\ rng = 0
    /\ \E d \in CacheDurations : fetcher = [NewFetcher EXCEPT !.cache_duration = d]
    /\ calls = << >>

OnlyFetcher ==
    UNCHANGED <<portfolio, feed, state, asset_metrics, portfolio_metrics,
                execution, classified, calc, confidence_level, rng, calls>>

\* A call; `answer` keeps the time of the call and the cache it found.
GetCurrentPrice(symbol, quote) ==
    LET r == get_current_price(fetcher, symbol, quote)
    IN /\ fetcher' = [r.fetcher EXCEPT !.answer =
                        [called |-> TRUE, symbol |-> symbol, at |-> fetcher.now,
                         quote |-> IF r.fetched THEN quote ELSE Unasked,
                         result |-> r.result, fetched |-> r.fetched,
                         cache |-> fetcher.cache,
                         cache_timestamps |-> fetcher.cache_timestamps]]
       /\ OnlyFetcher

\* A second passes.
Tick ==
    /\ fetcher.now < MaxClock
    /\ fetcher' = [fetcher EXCEPT !.now = @ + 1]
    /\ OnlyFetcher

NextCache ==
    \/ \E symbol \in Tickers, quote \in Quotes : GetCurrentPrice(symbol, quote)
    \/ Tick

SpecCache == InitCache /\ [][NextCache]_vars

-----------------------------------------------------------------------------
(* The VaR and CVaR entries of the two metric methods, for an agent        *)
(* constructed with any confidence level.                                  *)

\* "var_95" and "cvar_95" of an asset's metrics (lines 83-84).
asset_var_cvar(returns) ==
    [var_95  |-> calculate_var_historical(returns, Confidence95),
     cvar_95 |-> calculate_cvar(returns, Confidence95)]

\* "var_historical_95" and "cvar_95" of the portfolio metrics (lines 122 and
\* 124); the parametric and the simulated figure take the same literal.
portfolio_var_cvar(portfolio_returns) ==
    [var_historical_95 |-> calculate_var_historical(portfolio_returns, Confidence95),
     cvar_95           |-> calculate_cvar(portfolio_returns, Confidence95)]

\* RiskAnalyzerAgent(confidence_level=c), and a series of returns.
InitConfidence ==
    /\ portfolio = [name |-> "My Portfolio", assets |-> << >>]
    /\ feed = [s \in Symbols |-> [raises |-> FALSE, returns |-> EmptySeries]]
    /\ state = EmptyDict
    /\ asset_metrics = NotCalled
    /\ portfolio_metrics = NotCalled
    /\ execution = NotCalled
    /\ classified = NotCalled
    /\ \E xs \in SeriesInputs \ {<< >>} : calc = [called |-> FALSE, series |-> xs]
    /\ confidence_level \in Confidences
    /\ rng = 0
    /\ fetcher = NewFetcher
    /\ calls = << >>

AssetVarCVaR ==
    /\ ~calc.called
    /\ calc' = Applied("_calculate_asset_metrics", confidence_level,
                       asset_var_cvar(calc.series))
    /\ OnlyCalc

PortfolioVarCVaR ==
    /\ ~calc.called
    /\ calc' = Applied("_calculate_portfolio_metrics", confidence_level,
                       portfolio_var_cvar(calc.series))
    /\ OnlyCalc

NextConfidence ==
    \/ AssetVarCVaR
    \/ PortfolioVarCVaR

SpecConfidence == InitConfidence /\ [][NextConfidence]_vars

-----------------------------------------------------------------------------
(* Vocabulary of the properties *)

Assets == portfolio.assets

AssetIndex == 1..Len(Assets)

SeriesOf(i) == feed[Assets[i].symbol].returns

\* Assets whose return series is not empty.
WithData == {i \in AssetIndex : Observations(SeriesOf(i)) > 0}

\* Assets with at least 30 observations.
Sufficient == {i \in AssetIndex : Observations(SeriesOf(i)) >= MinObservations}

AllValued == \A i \in AssetIndex : Assets[i].current_value # None

NoFetchRaises == \A i \in AssetIndex : ~feed[Assets[i].symbol].raises

RECURSIVE SumValuesOf(_)
\* Sum of current_value over the assets in the index set I.
SumValuesOf(I) ==
    IF I = {} THEN 0
    ELSE LET i == CHOOSE j \in I : TRUE
         IN Assets[i].current_value + SumValuesOf(I \ {i})

RECURSIVE ValueWeightedReturn(_, _)
\* Sum over the assets i in I of current_value_i * return_i[t].
ValueWeightedReturn(I, t) ==
    IF I = {} THEN 0
    ELSE LET i == CHOOSE j \in I : TRUE
         IN Assets[i].current_value * SeriesOf(i)[t] + ValueWeightedReturn(I \ {i}, t)

RECURSIVE SumNums(_, _)
SumNums(ws, j) == IF j > Len(ws) THEN 0 ELSE ws[j].num + SumNums(ws, j + 1)

\* A metrics dict was returned by the last _calculate_portfolio_metrics call.
HasPortfolioMetrics ==
    portfolio_metrics.called /\ DOMAIN portfolio_metrics.result # {}

-----------------------------------------------------------------------------
(* C1: the total_value reported by _calculate_portfolio_metrics is the sum *)
(* of current_value over the assets whose return series is not empty.      *)
C1_TotalValueOverIncluded ==
    HasPortfolioMetrics =>
        portfolio_metrics.result.total_value = SumValuesOf(WithData)

(* C2: whenever metrics are produced, the weights applied to the included  *)
(* assets sum to exactly 1.                                                *)
C2_WeightsSumToOne ==
    HasPortfolioMetrics =>
        LET ws == portfolio_metrics.result.weights
        IN SumNums(ws, 1) = ws[1].den

(* C3: for every kept period t the portfolio return is the sum over the    *)
(* included assets i of (value_i / sum of included values) * return_i[t].  *)
(* Stated on fractions: nums[t] / den = (sum_i v_i r_i[t]) / included.     *)
C3_PortfolioReturnFormula ==
    HasPortfolioMetrics =>
        LET pr == portfolio_metrics.result.portfolio_returns
            included == SumValuesOf(WithData)
        IN \A t \in DOMAIN pr.nums :
              pr.nums[t] * included = ValueWeightedReturn(WithData, t) * pr.den

(* C4: with no computation failure, the symbols in asset_metrics and the   *)
(* symbols contributing to the portfolio aggregate are the same set: the   *)
(* assets with at least 30 observations.                                   *)
C4_SameIncludedSet ==
    (/\ asset_metrics.called /\ asset_metrics.bad = {}
     /\ HasPortfolioMetrics) =>
        LET in_asset_metrics ==
                {asset_metrics.result[j].symbol : j \in 1..Len(asset_metrics.result)}
            cols == portfolio_metrics.result.columns
            in_aggregate == {cols[j] : j \in 1..Len(cols)}
            sufficient == {Assets[i].symbol : i \in Sufficient}
        IN in_asset_metrics = sufficient /\ in_aggregate = sufficient

(* C5: for a portfolio with at least one asset with sufficient data,       *)
(* execute returns a report and leaves the agent in the completed state.   *)
C5_ExecuteReturnsReport ==
    (execution.called /\ Sufficient # {} /\ AllValued /\ NoFetchRaises) =>
        /\ execution.outcome = "returned"
        /\ \E k \in DOMAIN state : state[k] = "completed"

(* C6: if no asset of the portfolio has a non-empty return series (or the  *)
(* portfolio has no assets), _calculate_portfolio_metrics returns the      *)
(* empty dict, and _generate_risk_summary turns that into the status       *)
(* 'insufficient_data' alone, with no risk_level and no key_findings.      *)
C6_EmptyIncludedSetIsInsufficientData ==
    /\ (portfolio_metrics.called /\ WithData = {}) =>
           portfolio_metrics.result = EmptyDict
    /\ (/\ portfolio_metrics.called /\ WithData = {}
        /\ classified.called /\ classified.metrics = portfolio_metrics.result) =>
           /\ DOMAIN classified.result = {"status"}
           /\ classified.result.status = "insufficient_data"

C6_Witness ==
    /\ Len(Assets) = MaxAssets /\ NoFetchRaises /\ AllValued /\ WithData = {}
    /\ \E i \in AssetIndex : Assets[i].current_value > 0
    /\ portfolio_metrics.called /\ ~portfolio_metrics.fails
    /\ classified.called /\ classified.metrics = portfolio_metrics.result
    /\ classified.result.status = "insufficient_data"

(* C7: when the included set is not empty but its total value is 0, the    *)
(* aggregation ends in an outcome the caller can tell apart from the       *)
(* outcome of an empty included set (the empty dict).                      *)
C7_ZeroTotalDistinctFromNoData ==
    (/\ portfolio_metrics.called /\ ~portfolio_metrics.fails
     /\ NoFetchRaises /\ AllValued
     /\ WithData # {} /\ SumValuesOf(WithData) = 0) =>
        portfolio_metrics.result # EmptyDict

(* C8: in _calculate_asset_metrics an asset whose fetch or computation     *)
(* raises is skipped (and logged), and the result holds exactly one entry  *)
(* for every other asset with at least 30 observations, in portfolio order.*)
C8_FailureIsolatedPerAsset ==
    asset_metrics.called =>
        LET Failed(a) == \/ feed[a.symbol].raises
                         \/ /\ Observations(feed[a.symbol].returns) >= MinObservations
                            /\ a.symbol \in asset_metrics.bad
            Kept(a) == /\ ~Failed(a)
                       /\ Observations(feed[a.symbol].returns) >= MinObservations
            kept == SelectSeq(Assets, Kept)
            result == asset_metrics.result
        IN /\ Len(result) = Len(kept)
           /\ \A j \in 1..Len(kept) :
                 /\ result[j].symbol = kept[j].symbol
                 /\ result[j].observations = Observations(feed[kept[j].symbol].returns)
           /\ asset_metrics.errors = {Assets[i].symbol : i \in {k \in AssetIndex : Failed(Assets[k])}}

C8_Witness ==
    /\ asset_metrics.called
    /\ \E i, j \in AssetIndex :
          /\ i < j
          /\ Assets[i].symbol \in asset_metrics.errors
          /\ Len(asset_metrics.result) = 1
          /\ asset_metrics.result[1].symbol = Assets[j].symbol

(* C9: an asset with a sufficiently long series but no current value is    *)
(* left out, and the remaining assets that have both a value and data are  *)
(* still aggregated into non-empty portfolio metrics.                      *)
C9_UnvaluedAssetLeftOut ==
    (/\ portfolio_metrics.called /\ ~portfolio_metrics.fails /\ NoFetchRaises
     /\ \E i \in Sufficient : Assets[i].current_value = None
     /\ \E i \in Sufficient : Assets[i].current_value # None /\ Assets[i].current_value > 0) =>
        /\ portfolio_metrics.result # EmptyDict
        /\ LET cols == portfolio_metrics.result.columns
           IN \A j \in 1..Len(cols) :
                 \A i \in AssetIndex : Assets[i].symbol = cols[j] => Assets[i].current_value # None

(* C10: _assess_risk_level computes score = (3 if volatility > 0.30, else  *)
(* 2 if volatility > 0.20, else 0) + (2 if Sharpe < 0.5, else 0) and       *)
(* returns HIGH if score >= 4, MODERATE if score >= 2, LOW otherwise; so   *)
(* volatility 0.35 with Sharpe 0.3 is HIGH, and volatility above 0.30      *)
(* with Sharpe at least 0.5 is MODERATE.                                   *)
C10_RiskLevelFromScore ==
    (classified.called /\ classified.op = "_assess_risk_level"
       /\ DOMAIN classified.metrics # {}) =>
        LET v == classified.metrics.volatility
            sh == classified.metrics.sharpe_ratio
            score == (IF v # NaN /\ v > 30 THEN 3 ELSE IF v # NaN /\ v > 20 THEN 2 ELSE 0)
                       + (IF sh # NaN /\ sh < 50 THEN 2 ELSE 0)
            level == classified.result
        IN /\ level = (IF score >= 4 THEN "HIGH"
                       ELSE IF score >= 2 THEN "MODERATE" ELSE "LOW")
           /\ (v = 35 /\ sh = 30) => level = "HIGH"
           /\ (v # NaN /\ v > 30 /\ sh # NaN /\ sh >= 50) => level = "MODERATE"

C10_Witness ==
    /\ classified.called /\ classified.op = "_assess_risk_level"
    /\ DOMAIN classified.metrics # {}
    /\ classified.metrics.volatility = 35
    /\ classified.metrics.sharpe_ratio = 30
    /\ classified.result = "HIGH"

\* The kind of a finding: 1 volatility, 2 Sharpe, 3 VaR.
FindingKind(f) ==
    IF f \in {"High volatility", "Moderate volatility"} THEN 1
    ELSE IF f \in {"Good risk-adjusted returns", "Poor risk-adjusted returns"} THEN 2
    ELSE 3

\* The last direct call was _generate_risk_summary on a non-empty dict.
Summarized ==
    /\ classified.called /\ classified.op = "_generate_risk_summary"
    /\ DOMAIN classified.metrics # {}

(* C11: key_findings holds at most one volatility finding, at most one     *)
(* Sharpe finding and at most one VaR finding, in the order volatility,    *)
(* Sharpe, VaR: the kinds of its entries are strictly increasing.          *)
C11_FindingsOnePerKindInOrder ==
    Summarized =>
        LET fs == classified.result.key_findings
        IN \A i, j \in 1..Len(fs) : i < j => FindingKind(fs[i]) < FindingKind(fs[j])

C11_Witness ==
    /\ Summarized
    /\ classified.metrics.volatility > VolHigh
    /\ classified.result.key_findings =
           <<"High volatility", "Poor risk-adjusted returns", "95% VaR">>

(* C12: whenever the metrics contain var_historical_95, the value 0        *)
(* included, _generate_risk_summary appends the 95% VaR finding.           *)
C12_VarFindingWheneverPresent ==
    (Summarized /\ "var_historical_95" \in DOMAIN classified.metrics) =>
        LET fs == classified.result.key_findings
        IN \E i \in 1..Len(fs) : fs[i] = "95% VaR"

\* The series of the asset behind a column of the aggregate.
ColumnSeries(symbol) == feed[symbol].returns

(* C14: the portfolio return series has exactly one entry for each period  *)
(* present in the series of every included asset (every column of the      *)
(* aggregate), and none for a period that any included asset lacks.        *)
C14_PeriodsCommonToAllIncluded ==
    HasPortfolioMetrics =>
        LET cols == portfolio_metrics.result.columns
            pr == portfolio_metrics.result.portfolio_returns
        IN \A t \in 1..MaxLen :
              (t \in DOMAIN pr.nums) <=>
                  (\A j \in 1..Len(cols) : t \in DOMAIN ColumnSeries(cols[j]))

C14_Witness ==
    /\ HasPortfolioMetrics
    /\ LET cols == portfolio_metrics.result.columns
           pr == portfolio_metrics.result.portfolio_returns
       IN /\ Len(cols) >= 2
          /\ \E t \in 1..MaxLen :
                /\ t \in DOMAIN ColumnSeries(cols[1])
                /\ t \notin DOMAIN ColumnSeries(cols[2])
                /\ t \notin DOMAIN pr.nums
          /\ DOMAIN pr.nums # {}

(* C13: each asset's return series is obtained once and then fixed: the    *)
(* asset_metrics entry of an asset and that asset's column in the          *)
(* portfolio aggregate are computed from the same observations, even if    *)
(* the data source answers a second request differently.                   *)
C13_SeriesObtainedOnce ==
    (asset_metrics.called /\ HasPortfolioMetrics) =>
        LET entries == asset_metrics.result
            cols == portfolio_metrics.result.columns
            used == portfolio_metrics.result.column_observations
        IN \A j \in 1..Len(entries) : \A k \in 1..Len(cols) :
              entries[j].symbol = cols[k] => used[k] = entries[j].observations

\* The last direct call of a metric function was op.
AppliedOp(op) == calc.called /\ calc.op = op

NonDecreasing(xs) == \A i, j \in 1..Len(xs) : i < j => xs[i] <= xs[j]

Constant(xs) == \A i, j \in 1..Len(xs) : xs[i] = xs[j]

\* a <= b for fractions with positive denominators.
FracLe(a, b) == a.num * b.den <= b.num * a.den

\* xs in non-decreasing order.
SortedSeries(xs) ==
    LET p == CHOOSE perm \in Permutations(1..Len(xs)) :
                 \A i, j \in 1..Len(xs) : i < j => xs[perm[i]] <= xs[perm[j]]
    IN [i \in 1..Len(xs) |-> xs[p[i]]]

(* C15: calculate_max_drawdown returns a value >= 0 for every non-empty    *)
(* series, zero and negative values included, and exactly 0 for every      *)
(* non-decreasing series.                                                  *)
C15_MaxDrawdownNonNegative ==
    (AppliedOp("calculate_max_drawdown") /\ Len(calc.series) > 0) =>
        /\ ~calc.result.raised
        /\ calc.result.value.num >= 0
        /\ calc.result.value.num = 0 => calc.result.value.den > 0
        /\ NonDecreasing(calc.series) => calc.result.value.num = 0

C17_VarIsPercentileAndMonotone ==
    (AppliedOp("calculate_var_historical") /\ Len(calc.series) > 0) =>
        LET xs == calc.series
            sorted == SortedSeries(xs)
            h == (100 - calc.arg) * (Len(xs) - 1)
            lo == (h \div 100) + 1
            hi == IF h % 100 = 0 THEN lo ELSE lo + 1
        IN /\ calc.result.den = 100
           /\ calc.result.num =
                  100 * sorted[lo] + (h % 100) * (sorted[hi] - sorted[lo])
           /\ \A c2 \in Confidences :
                  c2 >= calc.arg => FracLe(calculate_var_historical(xs, c2), calc.result)

C17_Witness ==
    /\ AppliedOp("calculate_var_historical") /\ calc.arg = 50
    /\ Len(calc.series) = MaxSeriesLen /\ ~NonDecreasing(calc.series)
    /\ LET at95 == calculate_var_historical(calc.series, 95)
       IN /\ at95.num < calc.result.num
          /\ \A i \in 1..Len(calc.series) : calc.series[i] * 100 # at95.num

(* C18: for every constant series of length >= 1 and any risk-free rate,   *)
(* calculate_volatility returns 0 and calculate_sharpe_ratio returns NaN.  *)
C18_ConstantSeriesZeroVolatilityNaNSharpe ==
    (calc.called /\ Len(calc.series) >= 1 /\ Constant(calc.series)) =>
        /\ calc.op = "calculate_volatility" => calc.result = 0
        /\ calc.op = "calculate_sharpe_ratio" => calc.result = NaN

(* C19: calculate_volatility returns the sample standard deviation (the    *)
(* squared deviations from the mean summed and divided by n - 1), in       *)
(* hundredths rounded down, and NaN for a series of fewer than 2 points.   *)
C19_VolatilityIsSampleStd ==
    AppliedOp("calculate_volatility") =>
        LET n == Len(calc.series)
        IN /\ n < 2 => calc.result = NaN
           /\ n >= 2 => calc.result = ISqrt(Spread(calc.series) \div (n * (n - 1)))

(* C20: calculate_sortino_ratio returns NaN when no return is below the    *)
(* target; when some are (and their standard deviation is not 0) it        *)
(* returns (mean - target) / std(returns below target), in hundredths      *)
(* rounded down, whatever the mean of the returns below the target is.     *)
C20_SortinoFormula ==
    AppliedOp("calculate_sortino_ratio") =>
        LET xs == calc.series
            n == Len(xs)
            down == {i \in 1..n : xs[i] < calc.arg}
            below == [i \in down |-> xs[i]]
        IN /\ down = {} => calc.result = NaN
           /\ (down # {} /\ Spread(below) > 0) =>
                 calc.result =
                     (100 * (SumOver(xs, 1..n) - calc.arg * n) * Cardinality(down))
                         \div (n * ISqrt(Spread(below)))

(* C25: when the Sharpe ratio is NaN the classifier adds nothing for       *)
(* Sharpe and emits no Sharpe finding: the risk level is decided by        *)
(* volatility alone (MODERATE above 0.20, else LOW) and is never HIGH, and *)
(* the summary holds nothing but risk_level and key_findings.              *)
C25_NaNSharpeIsSilent ==
    (/\ classified.called /\ DOMAIN classified.metrics # {}
     /\ classified.metrics.sharpe_ratio = NaN) =>
        LET v == classified.metrics.volatility
            by_volatility == IF v # NaN /\ v > VolElevated THEN "MODERATE" ELSE "LOW"
        IN /\ classified.op = "_assess_risk_level" =>
                 classified.result = by_volatility
           /\ classified.op = "_generate_risk_summary" =>
                 /\ DOMAIN classified.result = {"risk_level", "key_findings"}
                 /\ classified.result.risk_level = by_volatility
                 /\ \A i \in 1..Len(classified.result.key_findings) :
                       FindingKind(classified.result.key_findings[i]) # 2

C25_Witness ==
    /\ Summarized
    /\ classified.metrics.sharpe_ratio = NaN
    /\ classified.metrics.volatility > VolHigh
    /\ classified.result.risk_level = "MODERATE"
    /\ classified.result.key_findings = <<"High volatility", "95% VaR">>

(* C26: calculate_max_drawdown returns a strictly positive value for every *)
(* series in which some element is strictly lower than an earlier one, a   *)
(* running peak of zero or below included.                                 *)
C26_MaxDrawdownPositiveOnDecline ==
    (/\ AppliedOp("calculate_max_drawdown")
     /\ \E i, j \in 1..Len(calc.series) : i < j /\ calc.series[j] < calc.series[i]) =>
        /\ ~calc.result.raised
        /\ calc.result.value.num > 0

(* C27: calculate_beta normalises the covariance and the market variance   *)
(* alike, so the beta of a non-constant series against itself is exactly   *)
(* 1; and it returns NaN when the market variance is 0.                    *)
C27_BetaNormalisation ==
    AppliedOp("calculate_beta") =>
        /\ (calc.arg = calc.series /\ ~Constant(calc.series)) =>
               calc.result.den # 0 /\ calc.result.num = calc.result.den
        /\ (Len(calc.arg) >= 1 /\ Constant(calc.arg)) =>
               calc.result = Frac(0, 0)

(* C21: calculate_var_monte_carlo accepts an optional seed, and two calls  *)
(* with the same series, confidence level and seed return the same value;  *)
(* so two portfolio-metrics runs give the same var_monte_carlo_95.         *)
C21_MonteCarloReproducible ==
    \A i, j \in 1..Len(calc.runs) :
        /\ ~calc.runs[i].result.raised
        /\ (/\ calc.runs[i].seed # None
            /\ calc.runs[i].seed = calc.runs[j].seed
            /\ calc.runs[i].confidence = calc.runs[j].confidence) =>
               calc.runs[i].result = calc.runs[j].result
        /\ (/\ calc.runs[i].caller = "_calculate_portfolio_metrics"
            /\ calc.runs[j].caller = "_calculate_portfolio_metrics") =>
               calc.runs[i].result = calc.runs[j].result

(* C23: whenever execute raises, handle_error has first recorded the       *)
(* failure (last_error holds the text of the causing exception and         *)
(* last_error_time is set), and the exception that leaves execute is the   *)
(* original one, re-raised at line 62.                                     *)
C23_FailureRecordedBeforeRaise ==
    (execution.called /\ execution.outcome = "raised") =>
        /\ "last_error" \in DOMAIN state
        /\ "last_error_time" \in DOMAIN state
        /\ state["last_error"] = execution.exception
        /\ execution.raised_at = 62

(* C24: the VaR and CVaR of the asset metrics and of the portfolio metrics *)
(* are computed at the confidence level the agent was constructed with.    *)
C24_VaRAtConstructedConfidence ==
    /\ AppliedOp("_calculate_asset_metrics") =>
          /\ calc.result.var_95 = calculate_var_historical(calc.series, confidence_level)
          /\ calc.result.cvar_95 = calculate_cvar(calc.series, confidence_level)
    /\ AppliedOp("_calculate_portfolio_metrics") =>
          /\ calc.result.var_historical_95 =
                 calculate_var_historical(calc.series, confidence_level)
          /\ calc.result.cvar_95 = calculate_cvar(calc.series, confidence_level)

\* The dicts a and b hold the same entries.
SameDict(a, b) == DOMAIN a = DOMAIN b /\ \A k \in DOMAIN a : a[k] = b[k]

(* C28: get_current_price answers from the cache only a price stored for   *)
(* that symbol less than cache_duration seconds earlier; once              *)
(* cache_duration has elapsed the call fetches again; and a fetch that     *)
(* fails or returns no data returns None and leaves the cached value and   *)
(* its timestamp unchanged.                                                *)
C28_CacheFreshness ==
    /\ DOMAIN fetcher.cache = DOMAIN fetcher.cache_timestamps
    /\ \A k \in DOMAIN fetcher.cache_timestamps :
          fetcher.cache_timestamps[k] <= fetcher.now
    /\ fetcher.answer.called =>
          LET a == fetcher.answer
              stored == a.symbol \in DOMAIN a.cache_timestamps
          IN /\ ~a.fetched =>
                   /\ stored
                   /\ a.at - a.cache_timestamps[a.symbol] < fetcher.cache_duration
                   /\ a.result = a.cache[a.symbol]
                   /\ SameDict(fetcher.cache, a.cache)
                   /\ SameDict(fetcher.cache_timestamps, a.cache_timestamps)
             /\ (stored /\ a.at - a.cache_timestamps[a.symbol] >= fetcher.cache_duration)
                   => a.fetched
             /\ (a.fetched /\ a.quote.kind = "price") =>
                   /\ a.result = a.quote.price
                   /\ fetcher.cache[a.symbol] = a.quote.price
                   /\ fetcher.cache_timestamps[a.symbol] = a.at
             /\ (a.fetched /\ a.quote.kind # "price") =>
                   /\ a.result = None
                   /\ SameDict(fetcher.cache, a.cache)
                   /\ SameDict(fetcher.cache_timestamps, a.cache_timestamps)

\* A price stored two seconds ago with cache_duration 2 has expired, the new
\* fetch raised, and the old price and timestamp are still cached.
C28_Witness ==
    /\ fetcher.answer.called
    /\ fetcher.cache_duration = 2
    /\ fetcher.answer.fetched
    /\ fetcher.answer.quote.kind = "raises"
    /\ fetcher.answer.symbol \in DOMAIN fetcher.cache
    /\ fetcher.answer.at - fetcher.cache_timestamps[fetcher.answer.symbol] = 2
    /\ fetcher.answer.result = None

====
